---- MODULE Spec2Model ----
(***************************************************************************)
(* Prayer accountability app: the next-prayer notification scheduler       *)
(* (src/notifications/adhanScheduler.ts), the Home screen that drives it   *)
(* (src/app/(tabs)/index.tsx) and the streak functions of the database     *)
(* (src/unnamed/part_007).                                                 *)
(*                                                                         *)
(* Time is counted in abstract instants; a calendar day is DayLen instants *)
(* long and instant t lies on day t \div DayLen.                           *)
(***************************************************************************)
EXTENDS Integers, Sequences, FiniteSets, Bags, TLC

VARIABLES
    clock,        \* the wall clock (dayjs() / new Date())
    scheduled,    \* the OS store of scheduled notifications, a bag
    inflight,     \* invocations of scheduleNextPrayerNotification that have not settled
    returned,     \* the invocation that returned last, until something else happens
    selIn,        \* inputs handed to the selection loop (times, now, grace)
    selOut,       \* what the selection loop selected for selIn
    completions,  \* prayer_completions: user -> set of days
    profiles,     \* profiles: user -> [current_streak, longest_streak]
    lastOp,       \* the last statement run against the streak tables
    hToday,       \* Home: the state `today` (a day number)
    hCoords,      \* Home: the state `coords` (None until a position is known)
    hPrefs,       \* Home: the states calcMethod, madhab, highLat
    effClosure,   \* Home: coords and prefs as seen by the callbacks of the effect on [uid, today]
    tickClosure,  \* Home: coords and prefs as seen by tick, the effect on [today, coords, uid]
    rescheduleLock, \* Home: rescheduleLock.current
    lockTimers,   \* Home: pending setTimeout(..., 800) callbacks that clear the lock
    tasks,        \* Home: setup and getAndComputeWithCurrentLocation calls awaiting a reply
    hTrig,        \* Home: whether the last step of the screen had a call of rescheduleNextIfReady dropped at the lock
    locError,     \* Home: the state `locError` (None when no error is shown)
    loadingTimes, \* Home: the state `loadingTimes`
    hTimes,       \* Home: the state `times`, the displayed prayer times (NoTimes until computed)
    checklist,    \* Home: the state `checklist`, prayer -> BOOLEAN
    loads,        \* Home: the days whose loadChecklistForDay is awaiting a reply
    checkins,     \* prayer_checkins: a set of rows
    dayRows,      \* prayer_completions as written by the Home screen: a bag of rows
    saves,        \* Home: saveCheckin / maybeShowCongrats calls awaiting a reply
    ckOp,         \* the last step of a check-in save, for the properties
    asyncStorage, \* AsyncStorage of the device: the keys congrats_shown_<user>_<day> that are set
    alerts,       \* the calls of Alert.alert('Congratulations!', ...) made so far, a bag of (user, day)
    loadReplies,  \* Home: what the select of a loadChecklistForDay has read, until setChecklist
    links,        \* buddy_links: a set of rows
    linkReqs,     \* requests on buddy_links that have not reached the database
    buddyOp,      \* the last request the database answered and the rows there were before it
    onIn,         \* inputs handed to isUserOnline (lastActiveAt, now)
    onOut         \* what isUserOnline returned for onIn

schedVars  == <<clock, scheduled, inflight, returned>>
selVars    == <<selIn, selOut>>
streakVars == <<completions, profiles, lastOp>>
homeVars   == <<hToday, hCoords, hPrefs, effClosure, tickClosure,
                rescheduleLock, lockTimers, tasks, hTrig,
                locError, loadingTimes, hTimes, checklist, loads>>
checkVars  == <<checkins, dayRows, saves, ckOp, asyncStorage, alerts, loadReplies>>
buddyVars  == <<links, linkReqs, buddyOp>>
onlineVars == <<onIn, onOut>>
vars       == <<clock, scheduled, inflight, returned,
                selIn, selOut, completions, profiles, lastOp,
                hToday, hCoords, hPrefs, effClosure, tickClosure,
                rescheduleLock, lockTimers, tasks, hTrig,
                locError, loadingTimes, hTimes, checklist, loads,
                checkins, dayRows, saves, ckOp, asyncStorage, alerts, loadReplies,
                links, linkReqs, buddyOp, onIn, onOut>>
dataVars   == <<checkVars, buddyVars, onlineVars>>
notSched   == <<selVars, streakVars, homeVars, dataVars>>
notSelect  == <<schedVars, streakVars, homeVars, dataVars>>
notStreak  == <<schedVars, selVars, homeVars, dataVars>>

----------------------------------------------------------------------------
(* Bounds *)

DayLen     == 8     \* instants per calendar day
MaxGrace   == 1     \* largest graceMinutes tried
MaxTests   == 1     \* test notifications pending at once
MaxLag     == 1     \* instants the clock may advance while one call is awaiting a reply
MaxSelTime == 5     \* prayer instants handed to the selection loop are 0..MaxSelTime
MaxDay     == 6     \* completion days are 1..MaxDay

MaxTasks   == 2     \* Home: setup(), location requests and checklist loads awaiting a reply at once

MaxClock == 2 * DayLen - 1

----------------------------------------------------------------------------
(* adhanScheduler.ts *)

PrayerKeys == {"fajr", "dhuhr", "asr", "maghrib", "isha"}
order      == <<"fajr", "dhuhr", "asr", "maghrib", "isha">>
None       == "none"

CoordSet == {"here", "east"}

FIXED_MWL_PREFS ==
    [calcMethod |-> "MuslimWorldLeague", madhab |-> "Shafi", highLat |-> "MiddleOfTheNight"]

PrefSet == {FIXED_MWL_PREFS, [FIXED_MWL_PREFS EXCEPT !.madhab = "Hanafi"]}

\* The adhan library is external: it is stood in for by a fixed table of
\* offsets into the day, later in the day further "east" and with a later
\* Asr under the Hanafi madhab.
buildParams(prefs) ==
    [asrShift |-> IF prefs.madhab = "Hanafi" THEN 1 ELSE 0]

computeTodayPrayerDates(coords, prefs, now) ==
    LET params == buildParams(prefs)
        shift  == IF coords = "east" THEN 1 ELSE 0
        day0   == (now \div DayLen) * DayLen
    IN  [k \in PrayerKeys |->
            day0 + shift +
            CASE k = "fajr"    -> 1
              [] k = "dhuhr"   -> 2
              [] k = "asr"     -> 3 + params.asrShift
              [] k = "maghrib" -> 5
              [] k = "isha"    -> 6]

\* Variants of the selection loop with a slip in it
RECURSIVE nextFrom_inclusive(_, _, _, _)
nextFrom_inclusive(times, now, grace, i) ==
    IF i > Len(order) THEN [key |-> None, time |-> -1]
    ELSE LET t == times[order[i]] + grace
         IN  IF t >= now THEN [key |-> order[i], time |-> t]
             ELSE nextFrom_inclusive(times, now, grace, i + 1)

RECURSIVE nextFrom_rollover(_, _, _, _)
nextFrom_rollover(times, now, grace, i) ==
    IF i > Len(order) THEN [key |-> "fajr", time |-> times["fajr"] + DayLen + grace]
    ELSE LET t == times[order[i]] + grace
         IN  IF t > now THEN [key |-> order[i], time |-> t]
             ELSE nextFrom_rollover(times, now, grace, i + 1)

RECURSIVE nextFrom_nograce(_, _, _, _)
nextFrom_nograce(times, now, grace, i) ==
    IF i > Len(order) THEN [key |-> None, time |-> -1]
    ELSE LET t == times[order[i]] + grace
         IN  IF t > now THEN [key |-> order[i], time |-> times[order[i]]]
             ELSE nextFrom_nograce(times, now, grace, i + 1)

\* for (const key of order) { t = times[key] + grace; if (t.isAfter(now)) ... break }
RECURSIVE nextFrom(_, _, _, _)
nextFrom(times, now, grace, i) ==
    IF i > Len(order) THEN [key |-> None, time |-> -1]
    ELSE LET t == times[order[i]] + grace
         IN  IF t > now THEN [key |-> order[i], time |-> t]
             ELSE nextFrom(times, now, grace, i + 1)

nextPrayer(times, now, grace) == nextFrom(times, now, grace, 1)

PrayerNotification(key, time) ==
    [type |-> "prayer", prayer |-> key, fireAt |-> time, sound |-> "adhan1"]

TestNotification(now) ==
    [type |-> "test", prayer |-> "test", fireAt |-> now + 1, sound |-> "adhan1"]

NoCall == [pc |-> "none"]

\* the null of `lastActiveAt: string | null` (timestamps are numbers)
NoTime == -1

\* the state `times` while it is null
NoTimes == [k \in PrayerKeys |-> NoTime]

OfType(store, ty) == [n \in {m \in DOMAIN store : m.type = ty} |-> store[n]]

CountType(store, ty) == BagCardinality(OfType(store, ty))

\* scheduleNextPrayerNotification up to its first await: the selection is made
\* from the clock read at the call, and the cancel request is issued.
scheduleNextPrayerNotification(coords, prefs, graceMinutes, playSound, now) ==
    LET times == computeTodayPrayerDates(coords, prefs, now)
        next  == nextPrayer(times, now, graceMinutes)
    IN  [pc        |-> "cancel",
         coords    |-> coords,
         prefs     |-> prefs,
         grace     |-> graceMinutes,
         playSound |-> playSound,
         now       |-> now,
         nextKey   |-> next.key,
         nextTime  |-> next.time,
         cancelled |-> -1,
         made      |-> <<>>,
         result    |-> "pending",
         repeats   |-> NoCall]

\* a cancel that removes nothing
cancelAllPrayerNotifications_noop(store) == store

\* Notifications.cancelAllScheduledNotificationsAsync(): every scheduled
\* notification goes, whatever its type
cancelAllPrayerNotifications(store) == EmptyBag

\* the continuation after `await cancelAllPrayerNotifications()`; the call
\* remembers how many prayer notifications its cancel removed
afterCancel(call, store) ==
    IF call.nextKey # None
    THEN [call EXCEPT !.pc = "schedule", !.cancelled = CountType(store, "prayer")]
    ELSE [call EXCEPT !.pc = "settled", !.cancelled = CountType(store, "prayer"),
                      !.result = None]

\* the continuation after `await Notifications.scheduleNotificationAsync(...)`
afterSchedule(call) ==
    [call EXCEPT !.pc = "settled",
                 !.made = Append(call.made, PrayerNotification(call.nextKey, call.nextTime)),
                 !.result = call.nextKey]

\* a rejected await: the exception leaves the function
thrown(call) == [call EXCEPT !.pc = "settled", !.result = "threw"]

RemoveAt(s, i) == SubSeq(s, 1, i - 1) \o SubSeq(s, i + 1, Len(s))

----------------------------------------------------------------------------
(* Idle values of the parts a specification does not exercise *)

SchedIdle ==
    /\ clock = 0
    /\ scheduled = EmptyBag
    /\ inflight = <<>>
    /\ returned = NoCall

SelIdle ==
    /\ selIn = [times |-> [k \in PrayerKeys |-> 0], now |-> 0, grace |-> 0]
    /\ selOut = NoCall

Users == {"u1"}

NoClosure == [coords |-> None, prefs |-> FIXED_MWL_PREFS, today |-> 0]

HomeIdle ==
    /\ hToday = 0
    /\ hCoords = None
    /\ hPrefs = FIXED_MWL_PREFS
    /\ effClosure = NoClosure
    /\ tickClosure = NoClosure
    /\ rescheduleLock = FALSE
    /\ lockTimers = 0
    /\ tasks = EmptyBag
    /\ hTrig = "none"
    /\ locError = None
    /\ loadingTimes = FALSE
    /\ hTimes = NoTimes
    /\ checklist = [k \in PrayerKeys |-> FALSE]
    /\ loads = {}

CheckIdle ==
    /\ checkins = {}
    /\ dayRows = EmptyBag
    /\ saves = EmptyBag
    /\ ckOp = NoCall
    /\ asyncStorage = {}
    /\ alerts = EmptyBag
    /\ loadReplies = {}

BuddyIdle ==
    /\ links = {}
    /\ linkReqs = {}
    /\ buddyOp = NoCall

OnlineIdle ==
    /\ onIn = [lastActiveAt |-> NoTime, now |-> 0]
    /\ onOut = NoCall

DataIdle == CheckIdle /\ BuddyIdle /\ OnlineIdle

StreakIdle ==
    /\ completions = [u \in Users |-> {}]
    /\ profiles = [u \in Users |-> [current_streak |-> 0, longest_streak |-> 0]]
    /\ lastOp = [op |-> "none", user |-> "none",
                 before |-> [u \in Users |-> [current_streak |-> 0, longest_streak |-> 0]],
                 streak_result |-> [current_streak |-> 0, longest_streak |-> 0]]

----------------------------------------------------------------------------------------------------------------------------------------------
(* The scheduler called directly, one call after the other *)

InitSched ==
    /\ SchedIdle
    /\ SelIdle
    /\ StreakIdle
    /\ HomeIdle
    /\ DataIdle

SameInputs(a, b) ==
    /\ a.coords = b.coords
    /\ a.prefs = b.prefs
    /\ a.grace = b.grace
    /\ a.playSound = b.playSound

\* what the caller sees when the promise settles, with the store as it is then
Returned(call, store) == [call EXCEPT !.pc = "returned"] @@ [after |-> store]

\* the call is remembered as a repeat when the call before it has just
\* returned normally, with the same inputs and at the same clock reading
CallSchedule ==
    \E c \in CoordSet, p \in PrefSet, g \in 0..MaxGrace, s \in BOOLEAN :
        LET call == scheduleNextPrayerNotification(c, p, g, s, clock)
            rep  == /\ returned # NoCall
                    /\ returned.result # "threw"
                    /\ returned.now = clock
                    /\ SameInputs(returned, call)
        IN  /\ inflight = <<>>
            /\ inflight' = <<IF rep THEN [call EXCEPT !.repeats = [pc |-> "repeat",
                                                                  after |-> returned.after]]
                                    ELSE call>>
            /\ returned' = NoCall
            /\ UNCHANGED <<clock, scheduled>>
            /\ UNCHANGED notSched

\* Notifications.cancelAllScheduledNotificationsAsync() resolves; with no
\* prayer left the function returns null at once
CancelResolves ==
    \E i \in 1..Len(inflight) :
        LET call == afterCancel(inflight[i], scheduled)
        IN  /\ inflight[i].pc = "cancel"
            /\ scheduled' = cancelAllPrayerNotifications(scheduled)
            /\ IF call.pc = "settled"
               THEN /\ inflight' = RemoveAt(inflight, i)
                    /\ returned' = Returned(call, scheduled')
               ELSE /\ inflight' = [inflight EXCEPT ![i] = call]
                    /\ UNCHANGED returned
            /\ UNCHANGED clock
            /\ UNCHANGED notSched

CancelRejects ==
    \E i \in 1..Len(inflight) :
        /\ inflight[i].pc = "cancel"
        /\ inflight' = RemoveAt(inflight, i)
        /\ returned' = Returned(thrown(inflight[i]), scheduled)
        /\ UNCHANGED <<clock, scheduled>>
        /\ UNCHANGED notSched

\* Notifications.scheduleNotificationAsync(...) resolves and the key is returned
ScheduleResolves ==
    \E i \in 1..Len(inflight) :
        /\ inflight[i].pc = "schedule"
        /\ scheduled' = scheduled (+) SetToBag({afterSchedule(inflight[i]).made[1]})
        /\ inflight' = RemoveAt(inflight, i)
        /\ returned' = Returned(afterSchedule(inflight[i]), scheduled')
        /\ UNCHANGED clock
        /\ UNCHANGED notSched

ScheduleRejects ==
    \E i \in 1..Len(inflight) :
        /\ inflight[i].pc = "schedule"
        /\ inflight' = RemoveAt(inflight, i)
        /\ returned' = Returned(thrown(inflight[i]), scheduled)
        /\ UNCHANGED <<clock, scheduled>>
        /\ UNCHANGED notSched

\* scheduleTestAudioNotification (buddy screen)
scheduleTestAudioNotification ==
    /\ CountType(scheduled, "test") < MaxTests
    /\ scheduled' = scheduled (+) SetToBag({TestNotification(clock)})
    /\ returned' = NoCall
    /\ UNCHANGED <<clock, inflight>>
    /\ UNCHANGED notSched

\* the OS delivers a notification that is due and drops it from the store
Fire ==
    \E n \in DOMAIN scheduled :
        /\ n.fireAt <= clock
        /\ scheduled' = scheduled (-) SetToBag({n})
        /\ returned' = NoCall
        /\ UNCHANGED <<clock, inflight>>
        /\ UNCHANGED notSched

\* the clock moves on once the notifications due now have been delivered
ClockTick ==
    /\ clock < MaxClock
    /\ \A i \in 1..Len(inflight) : clock - inflight[i].now < MaxLag
    /\ \A n \in DOMAIN scheduled : n.fireAt > clock
    /\ clock' = clock + 1
    /\ returned' = NoCall
    /\ UNCHANGED <<scheduled, inflight>>
    /\ UNCHANGED notSched

NextSched ==
    \/ CallSchedule
    \/ CancelResolves
    \/ CancelRejects
    \/ ScheduleResolves
    \/ ScheduleRejects
    \/ scheduleTestAudioNotification
    \/ Fire
    \/ ClockTick

SpecSched == InitSched /\ [][NextSched]_vars

----------------------------------------------------------------------------
(* The selection loop of scheduleNextPrayerNotification on its own *)

\* [08:00, 12:30, 16:00, 19:00, 20:30] at 13:00, in minutes of the day
ExampleSel ==
    [times |-> [k \in PrayerKeys |->
                   CASE k = "fajr"    -> 480
                     [] k = "dhuhr"   -> 750
                     [] k = "asr"     -> 960
                     [] k = "maghrib" -> 1140
                     [] k = "isha"    -> 1230],
     now   |-> 780,
     grace |-> 0]

InitSelect ==
    /\ selIn \in [times : [PrayerKeys -> 0..MaxSelTime],
                  now   : 0..(MaxSelTime + MaxGrace),
                  grace : 0..MaxGrace] \cup {ExampleSel}
    /\ selOut = NoCall
    /\ SchedIdle
    /\ StreakIdle
    /\ HomeIdle
    /\ DataIdle

Select ==
    /\ selOut = NoCall
    /\ selOut' = nextPrayer(selIn.times, selIn.now, selIn.grace)
    /\ UNCHANGED selIn
    /\ UNCHANGED notSelect

NextSelect == Select

SpecSelect == InitSelect /\ [][NextSelect]_vars

----------------------------------------------------------------------------
(* Streak functions of the database (part_007) *)

Days == 1..MaxDay

Max2(a, b) == IF a > b THEN a ELSE b

MaxOf(S) == CHOOSE m \in S : \A x \in S : x <= m

\* SELECT day FROM prayer_completions WHERE user_id = ... ORDER BY day DESC
RECURSIVE OrderByDayDesc(_)
OrderByDayDesc(S) ==
    IF S = {} THEN <<>>
    ELSE <<MaxOf(S)>> \o OrderByDayDesc(S \ {MaxOf(S)})

\* the body of the FOR loop of calculate_user_streak, from row i on
RECURSIVE streakLoop(_, _, _, _)
streakLoop(rows, i, st, maxDay) ==
    IF i > Len(rows) THEN st
    ELSE LET completion_date == rows[i]
         IN  IF st.first_iteration
             THEN streakLoop(rows, i + 1,
                      [st EXCEPT !.current_count = 1, !.temp_count = 1,
                                 !.prev_date = completion_date,
                                 !.first_iteration = FALSE], maxDay)
             ELSE IF completion_date = st.prev_date - 1
             THEN streakLoop(rows, i + 1,
                      [st EXCEPT !.current_count = st.current_count + 1,
                                 !.temp_count = st.temp_count + 1,
                                 !.prev_date = completion_date], maxDay)
             ELSE streakLoop(rows, i + 1,
                      [st EXCEPT !.longest_count = Max2(st.longest_count, st.temp_count),
                                 !.current_count = IF st.prev_date # maxDay
                                                   THEN 0 ELSE st.current_count,
                                 !.temp_count = 1,
                                 !.prev_date = completion_date], maxDay)

\* calculate_user_streak without the final check after the loop
calculate_user_streak_nofinal(days) ==
    LET st == streakLoop(OrderByDayDesc(days), 1,
                  [current_count |-> 0, longest_count |-> 0, temp_count |-> 0,
                   prev_date |-> 0, first_iteration |-> TRUE],
                  IF days = {} THEN 0 ELSE MaxOf(days))
    IN  IF st.first_iteration
        THEN [current_streak |-> 0, longest_streak |-> 0]
        ELSE [current_streak |-> st.current_count,
              longest_streak |-> st.longest_count]

calculate_user_streak(days) ==
    LET st == streakLoop(OrderByDayDesc(days), 1,
                  [current_count |-> 0, longest_count |-> 0, temp_count |-> 0,
                   prev_date |-> 0, first_iteration |-> TRUE],
                  IF days = {} THEN 0 ELSE MaxOf(days))
    IN  IF st.first_iteration
        THEN [current_streak |-> 0, longest_streak |-> 0]
        ELSE [current_streak |-> st.current_count,
              longest_streak |-> Max2(st.longest_count, st.temp_count)]

\* Variants of the trigger: one that overwrites longest_streak, one that never
\* raises it, one that uses GREATEST for current_streak on DELETE as well
trigger_update_streak_assign(tgOp, profile, days) ==
    LET streak_result == calculate_user_streak(days)
    IN  IF tgOp = "DELETE"
        THEN [current_streak |-> streak_result.current_streak,
              longest_streak |-> streak_result.longest_streak]
        ELSE [current_streak |-> Max2(profile.current_streak, streak_result.current_streak),
              longest_streak |-> streak_result.longest_streak]

trigger_update_streak_keeplongest(tgOp, profile, days) ==
    LET streak_result == calculate_user_streak(days)
    IN  IF tgOp = "DELETE"
        THEN [current_streak |-> streak_result.current_streak,
              longest_streak |-> profile.longest_streak]
        ELSE [current_streak |-> Max2(profile.current_streak, streak_result.current_streak),
              longest_streak |-> profile.longest_streak]

trigger_update_streak_greatest(tgOp, profile, days) ==
    LET streak_result == calculate_user_streak(days)
    IN  [current_streak |-> Max2(profile.current_streak, streak_result.current_streak),
         longest_streak |-> Max2(profile.longest_streak, streak_result.longest_streak)]

\* trigger_update_streak: the profile row after the trigger has run for a
\* statement of kind tgOp, with days the user's completion days after it
trigger_update_streak(tgOp, profile, days) ==
    LET streak_result == calculate_user_streak(days)
    IN  IF tgOp = "DELETE"
        THEN [current_streak |-> streak_result.current_streak,
              longest_streak |-> Max2(profile.longest_streak, streak_result.longest_streak)]
        ELSE [current_streak |-> Max2(profile.current_streak, streak_result.current_streak),
              longest_streak |-> Max2(profile.longest_streak, streak_result.longest_streak)]

\* update_all_streaks: GREATEST on both columns, for every profile
update_all_streaks(profs, comps) ==
    [u \in DOMAIN profs |->
        LET streak_result == calculate_user_streak(comps[u])
        IN  [current_streak |-> Max2(profs[u].current_streak, streak_result.current_streak),
             longest_streak |-> Max2(profs[u].longest_streak, streak_result.longest_streak)]]

\* StreakService.initializeUserStreak
initializeUserStreak(profile) == [current_streak |-> 0, longest_streak |-> 0]

InitStreak ==
    /\ StreakIdle
    /\ SchedIdle
    /\ SelIdle
    /\ HomeIdle
    /\ DataIdle

\* INSERT of a new (user, day) row, followed by the row trigger
InsertCompletion ==
    \E u \in Users, d \in Days :
        /\ d \notin completions[u]
        /\ completions' = [completions EXCEPT ![u] = @ \cup {d}]
        /\ profiles' = [profiles EXCEPT
                           ![u] = trigger_update_streak("INSERT", @, completions'[u])]
        /\ lastOp' = [op |-> "INSERT", user |-> u, before |-> profiles,
                      streak_result |-> calculate_user_streak(completions'[u])]
        /\ UNCHANGED notStreak

\* the upsert of an existing (user, day) row: ON CONFLICT ... DO UPDATE
UpdateCompletion ==
    \E u \in Users, d \in Days :
        /\ d \in completions[u]
        /\ completions' = completions
        /\ profiles' = [profiles EXCEPT
                           ![u] = trigger_update_streak("UPDATE", @, completions'[u])]
        /\ lastOp' = [op |-> "UPDATE", user |-> u, before |-> profiles,
                      streak_result |-> calculate_user_streak(completions'[u])]
        /\ UNCHANGED notStreak

DeleteCompletion ==
    \E u \in Users, d \in Days :
        /\ d \in completions[u]
        /\ completions' = [completions EXCEPT ![u] = @ \ {d}]
        /\ profiles' = [profiles EXCEPT
                           ![u] = trigger_update_streak("DELETE", @, completions'[u])]
        /\ lastOp' = [op |-> "DELETE", user |-> u, before |-> profiles,
                      streak_result |-> calculate_user_streak(completions'[u])]
        /\ UNCHANGED notStreak

UpdateAllStreaks ==
    /\ profiles' = update_all_streaks(profiles, completions)
    /\ lastOp' = [op |-> "update_all_streaks", user |-> "all", before |-> profiles,
                  streak_result |-> [current_streak |-> 0, longest_streak |-> 0]]
    /\ UNCHANGED completions
    /\ UNCHANGED notStreak

InitializeUserStreak ==
    \E u \in Users :
        /\ profiles' = [profiles EXCEPT ![u] = initializeUserStreak(@)]
        /\ lastOp' = [op |-> "initializeUserStreak", user |-> u, before |-> profiles,
                      streak_result |-> [current_streak |-> 0, longest_streak |-> 0]]
        /\ UNCHANGED completions
        /\ UNCHANGED notStreak

NextStreak ==
    \/ InsertCompletion
    \/ UpdateCompletion
    \/ DeleteCompletion
    \/ UpdateAllStreaks
    \/ InitializeUserStreak

SpecStreak == InitStreak /\ [][NextStreak]_vars

\* completion days being inserted, in any order, for a profile that starts
\* at (0, 0)
NextInserts == InsertCompletion

SpecInserts == InitStreak /\ [][NextInserts]_vars

----------------------------------------------------------------------------
(* StreakService.isUserOnline (bootstrap.tsx); timestamps in seconds *)

OnlineMinutes    == 5      \* `diffMinutes < 5`
SecondsPerMinute == 60     \* the unit 'minute' of dayjs diff

MaxSkew == 6     \* timestamps tried lie within MaxSkew seconds of the boundary

\* dayjs: a.diff(b, unit) drops the fraction, towards zero
diff(a, b, unit) ==
    IF a >= b THEN (a - b) \div unit ELSE -((b - a) \div unit)

\* isUserOnline with <= in place of <
isUserOnline_inclusive(lastActiveAt, now) ==
    IF lastActiveAt = NoTime THEN FALSE
    ELSE diff(now, lastActiveAt, SecondsPerMinute) <= OnlineMinutes

isUserOnline(lastActiveAt, now) ==
    IF lastActiveAt = NoTime THEN FALSE
    ELSE diff(now, lastActiveAt, SecondsPerMinute) < OnlineMinutes

OnlineNows ==
    {0} \cup ((OnlineMinutes * SecondsPerMinute - MaxSkew) ..
              (OnlineMinutes * SecondsPerMinute + MaxSkew))

InitOnline ==
    /\ onIn \in [lastActiveAt : {NoTime} \cup (0..MaxSkew), now : OnlineNows]
    /\ onOut = NoCall
    /\ SchedIdle
    /\ SelIdle
    /\ StreakIdle
    /\ HomeIdle
    /\ CheckIdle
    /\ BuddyIdle

IsUserOnline ==
    /\ onOut = NoCall
    /\ onOut' = [pc |-> "returned", result |-> isUserOnline(onIn.lastActiveAt, onIn.now)]
    /\ UNCHANGED <<onIn, schedVars, selVars, streakVars, homeVars, checkVars, buddyVars>>

NextOnline == IsUserOnline

SpecOnline == InitOnline /\ [][NextOnline]_vars

----------------------------------------------------------------------------
(* formatLastActive (StreakService) on its own; timestamps are seconds *)

SecondsPerHour == 3600   \* the unit 'hour' of dayjs diff
SecondsPerDay  == 86400  \* the unit 'day' of dayjs diff
NowLimit       == 1      \* `diffMinutes < 1`
MinutesLimit   == 60     \* `diffMinutes < 60`
HoursLimit     == 24     \* `diffHours < 24`
DaysLimit      == 7      \* `diffDays < 7`

\* what is displayed: the label and the number in it; for the absolute
\* month/day string, the day on which lastActiveAt lies
Label(text, n) == [text |-> text, n |-> n]

\* formatLastActive with <= in place of < in the test of the minutes
formatLastActive_inclusive(lastActiveAt, now) ==
    IF lastActiveAt = NoTime THEN Label("Never", 0)
    ELSE LET diffMinutes == diff(now, lastActiveAt, SecondsPerMinute)
             diffHours   == diff(now, lastActiveAt, SecondsPerHour)
             diffDays    == diff(now, lastActiveAt, SecondsPerDay)
         IN  IF diffMinutes < NowLimit THEN Label("Now", 0)
             ELSE IF diffMinutes <= MinutesLimit THEN Label("min ago", diffMinutes)
             ELSE IF diffHours < HoursLimit THEN Label("h ago", diffHours)
             ELSE IF diffDays < DaysLimit THEN Label("d ago", diffDays)
             ELSE Label("MMM D", lastActiveAt \div SecondsPerDay)

formatLastActive(lastActiveAt, now) ==
    IF lastActiveAt = NoTime THEN Label("Never", 0)
    ELSE LET diffMinutes == diff(now, lastActiveAt, SecondsPerMinute)
             diffHours   == diff(now, lastActiveAt, SecondsPerHour)
             diffDays    == diff(now, lastActiveAt, SecondsPerDay)
         IN  IF diffMinutes < NowLimit THEN Label("Now", 0)
             ELSE IF diffMinutes < MinutesLimit THEN Label("min ago", diffMinutes)
             ELSE IF diffHours < HoursLimit THEN Label("h ago", diffHours)
             ELSE IF diffDays < DaysLimit THEN Label("d ago", diffDays)
             ELSE Label("MMM D", lastActiveAt \div SecondsPerDay)

\* the elapsed times at which the label changes
FormatBoundaries ==
    {0, NowLimit * SecondsPerMinute, MinutesLimit * SecondsPerMinute,
     HoursLimit * SecondsPerHour, DaysLimit * SecondsPerDay}

\* readings of the clock within MaxSkew seconds of a boundary
FormatNows ==
    {t \in UNION {(b - MaxSkew)..(b + MaxSkew) : b \in FormatBoundaries} : t >= 0}

InitFormat ==
    /\ onIn \in [lastActiveAt : {NoTime} \cup (0..MaxSkew), now : FormatNows]
    /\ onOut = NoCall
    /\ SchedIdle
    /\ SelIdle
    /\ StreakIdle
    /\ HomeIdle
    /\ CheckIdle
    /\ BuddyIdle

FormatLastActive ==
    /\ onOut = NoCall
    /\ onOut' = [pc |-> "returned",
                 result |-> formatLastActive(onIn.lastActiveAt, onIn.now)]
    /\ UNCHANGED <<onIn, schedVars, selVars, streakVars, homeVars, checkVars, buddyVars>>

NextFormat == FormatLastActive

SpecFormat == InitFormat /\ [][NextFormat]_vars

----------------------------------------------------------------------------
(* Buddy links (buddy.tsx, init_schema.sql); user ids are numbers, compared *)
(* as the strings are by Array.prototype.sort                               *)

MaxUsers   == 2     \* users are 1..MaxUsers
MaxLinkIds == 2     \* rows ever inserted into buddy_links
MaxReqs    == 2     \* requests under way at once

BuddyUsers == 1..MaxUsers

\* [me, targetId].sort()
sortPair(me, targetId) ==
    IF me <= targetId THEN <<me, targetId>> ELSE <<targetId, me>>

\* the row sent by sendInvite, had the pair been left as [me, targetId]
sendInvite_unsorted(me, targetId) ==
    [op |-> "insert", user_a |-> me, user_b |-> targetId,
     created_by |-> me, status |-> "pending"]

\* sendInvite: the row sent to the database
sendInvite(me, targetId) ==
    LET p == sortPair(me, targetId)
    IN  [op |-> "insert", user_a |-> p[1], user_b |-> p[2],
         created_by |-> me, status |-> "pending"]

\* UNIQUE(user_a, user_b)
conflicts(rows, req) ==
    \E r \in rows : r.user_a = req.user_a /\ r.user_b = req.user_b

\* CREATE POLICY "Users can create buddy links" ... FOR INSERT
\* WITH CHECK (auth.uid() = user_a)
insertPolicy(uid, row) ==
    uid = row.user_a

UsedIds == {r.id : r \in links}

InitBuddy ==
    /\ links = {}
    /\ linkReqs = {}
    /\ buddyOp = [pc |-> "none", nextId |-> 1]
    /\ SchedIdle
    /\ SelIdle
    /\ StreakIdle
    /\ HomeIdle
    /\ CheckIdle
    /\ OnlineIdle

buddyRest == <<schedVars, selVars, streakVars, homeVars, checkVars, onlineVars>>

\* sendInvite up to the insert: the target was found by e-mail and is not me
SendInvite ==
    \E me \in BuddyUsers, targetId \in BuddyUsers :
        /\ me # targetId
        /\ Cardinality(linkReqs) < MaxReqs
        /\ linkReqs' = linkReqs \cup {sendInvite(me, targetId)}
        /\ UNCHANGED <<links, buddyOp>>
        /\ UNCHANGED buddyRest

\* the insert reaches the database under the session of the inviter: the
\* row-level policy is checked first, then the unique constraint (error
\* 23505), and only then is there a row
InsertArrives ==
    \E req \in linkReqs :
        /\ req.op = "insert"
        /\ linkReqs' = linkReqs \ {req}
        /\ IF ~insertPolicy(req.created_by, req)
           THEN /\ UNCHANGED links
                /\ buddyOp' = [pc |-> "denied", nextId |-> buddyOp.nextId,
                               req |-> req, rows |-> Cardinality(links)]
           ELSE IF conflicts(links, req)
           THEN /\ UNCHANGED links
                /\ buddyOp' = [pc |-> "duplicate", nextId |-> buddyOp.nextId,
                               req |-> req, rows |-> Cardinality(links)]
           ELSE /\ buddyOp.nextId <= MaxLinkIds
                /\ links' = links \cup {[id |-> buddyOp.nextId, user_a |-> req.user_a,
                                         user_b |-> req.user_b,
                                         created_by |-> req.created_by,
                                         status |-> req.status]}
                /\ buddyOp' = [pc |-> "inserted", nextId |-> buddyOp.nextId + 1,
                               req |-> req, rows |-> Cardinality(links)]
        /\ UNCHANGED buddyRest

\* acceptInvite(linkId), pressed on a row the screen shows
AcceptInvite ==
    \E r \in links :
        /\ r.status = "pending"
        /\ Cardinality(linkReqs) < MaxReqs
        /\ linkReqs' = linkReqs \cup {[op |-> "accept", id |-> r.id]}
        /\ UNCHANGED <<links, buddyOp>>
        /\ UNCHANGED buddyRest

\* update({ status: 'accepted' }).eq('id', linkId) reaches the database
AcceptArrives ==
    \E req \in linkReqs :
        /\ req.op = "accept"
        /\ linkReqs' = linkReqs \ {req}
        /\ links' = {IF r.id = req.id THEN [r EXCEPT !.status = "accepted"] ELSE r : r \in links}
        /\ buddyOp' = [pc |-> "accepted", nextId |-> buddyOp.nextId,
                       req |-> req, rows |-> Cardinality(links)]
        /\ UNCHANGED buddyRest

\* declineOrRemove(linkId), pressed on a row the screen shows
DeclineOrRemove ==
    \E r \in links :
        /\ Cardinality(linkReqs) < MaxReqs
        /\ linkReqs' = linkReqs \cup {[op |-> "delete", id |-> r.id]}
        /\ UNCHANGED <<links, buddyOp>>
        /\ UNCHANGED buddyRest

\* delete().eq('id', linkId) reaches the database
DeleteArrives ==
    \E req \in linkReqs :
        /\ req.op = "delete"
        /\ linkReqs' = linkReqs \ {req}
        /\ links' = {r \in links : r.id # req.id}
        /\ buddyOp' = [pc |-> "deleted", nextId |-> buddyOp.nextId,
                       req |-> req, rows |-> Cardinality(links)]
        /\ UNCHANGED buddyRest

NextBuddy ==
    \/ SendInvite
    \/ InsertArrives
    \/ AcceptInvite
    \/ AcceptArrives
    \/ DeclineOrRemove
    \/ DeleteArrives

SpecBuddy == InitBuddy /\ [][NextBuddy]_vars

----------------------------------------------------------------------------
(* The Home screen (index.tsx) driving the scheduler *)

Day(now) == now \div DayLen

\* what a render's callbacks see of the state
Closure(st) == [coords |-> st.coords, prefs |-> st.prefs, today |-> st.today]

\* the parts of the screen that one callback can change, as one record
HomeState ==
    [today |-> hToday, coords |-> hCoords, prefs |-> hPrefs,
     eff |-> effClosure, tick |-> tickClosure,
     lock |-> rescheduleLock, timers |-> lockTimers,
     calls |-> inflight, tasks |-> tasks, trig |-> "none",
     locError |-> locError, loading |-> loadingTimes, times |-> hTimes,
     checklist |-> checklist, loads |-> loads]

Commit(st) ==
    /\ BagCardinality(st.tasks) + Cardinality(st.loads) <= MaxTasks
    /\ hToday' = st.today
    /\ hCoords' = st.coords
    /\ hPrefs' = st.prefs
    /\ effClosure' = st.eff
    /\ tickClosure' = st.tick
    /\ rescheduleLock' = st.lock
    /\ lockTimers' = st.timers
    /\ inflight' = st.calls
    /\ tasks' = st.tasks
    /\ hTrig' = st.trig
    /\ locError' = st.locError
    /\ loadingTimes' = st.loading
    /\ hTimes' = st.times
    /\ checklist' = st.checklist
    /\ loads' = st.loads

\* who called rescheduleNextIfReady: getAndComputeWithCurrentLocation awaits
\* it inside its try block (and setup() awaits that in turn); tick, the
\* effect on the preferences and the tap listener do not await it
Unawaited == [kind |-> "none", setup |-> FALSE, today |-> 0]
Awaited(t) == [kind |-> "locate", setup |-> t.setup,
               today |-> IF t.setup THEN t.closure.today ELSE 0]

\* computeTimes(c), with the preferences of the closure
computeTimes(cl, c, st, now) ==
    [st EXCEPT !.times = computeTodayPrayerDates(c, cl.prefs, now)]

\* rescheduleNextIfReady without the test of the lock
rescheduleNextIfReady_nolock(cl, caller, st, now) ==
    IF cl.coords = None
    THEN st
    ELSE [st EXCEPT !.lock = TRUE,
                    !.calls = Append(@, scheduleNextPrayerNotification(
                                            cl.coords, cl.prefs, 0, TRUE, now)
                                        @@ [from |-> caller])]

\* rescheduleNextIfReady without the test of coords
rescheduleNextIfReady_anycoords(cl, caller, st, now) ==
    IF st.lock
    THEN [st EXCEPT !.trig = "locked"]
    ELSE [st EXCEPT !.lock = TRUE,
                    !.calls = Append(@, scheduleNextPrayerNotification(
                                            st.coords, cl.prefs, 0, TRUE, now)
                                        @@ [from |-> caller])]

\* rescheduleNextIfReady, run with the coords and prefs of the closure cl, up
\* to the await of scheduleNextPrayerNotification
rescheduleNextIfReady(cl, caller, st, now) ==
    IF cl.coords = None
    THEN st
    ELSE IF st.lock
    THEN [st EXCEPT !.trig = "locked"]
    ELSE [st EXCEPT !.lock = TRUE,
                    !.calls = Append(@, scheduleNextPrayerNotification(
                                            cl.coords, cl.prefs, 0, TRUE, now)
                                        @@ [from |-> caller])]

\* getAndComputeWithCurrentLocation without setLocError(null)
startLocate_keeperror(cl, setup, st) ==
    [st EXCEPT !.loading = TRUE,
               !.tasks = @ (+) SetToBag({[kind |-> "locate",
                                          closure |-> IF setup THEN cl
                                                      ELSE [cl EXCEPT !.today = 0],
                                          setup |-> setup]})]

\* getAndComputeWithCurrentLocation up to its first await; `today` is read
\* only by setup(), after the call has returned
startLocate(cl, setup, st) ==
    [st EXCEPT !.loading = TRUE,
               !.locError = None,
               !.tasks = @ (+) SetToBag({[kind |-> "locate",
                                          closure |-> IF setup THEN cl
                                                      ELSE [cl EXCEPT !.today = 0],
                                          setup |-> setup]})]

\* the finally block of getAndComputeWithCurrentLocation; when setup() was the
\* caller it goes on to loadChecklistForDay(today, uid)
afterGetAndCompute(from, st) ==
    LET s1 == [st EXCEPT !.loading = FALSE]
    IN  IF from.setup
        THEN [s1 EXCEPT !.loads = @ \cup {from.today}]
        ELSE s1

\* rescheduleNextIfReady with the release of the lock after the await instead
\* of in a finally block
afterReschedule_nofinally(call, threw, st) ==
    LET s1 == IF threw THEN st ELSE [st EXCEPT !.timers = @ + 1]
    IN  IF call.from.kind = "locate"
        THEN afterGetAndCompute(call.from,
                 IF threw THEN [s1 EXCEPT !.locError = "notification"] ELSE s1)
        ELSE s1

\* the finally block of rescheduleNextIfReady and what the caller does with
\* the outcome: the catch block of getAndComputeWithCurrentLocation shows the
\* message of the exception; nobody handles the rejection elsewhere
afterReschedule(call, threw, st) ==
    LET s1 == [st EXCEPT !.timers = @ + 1]
    IN  IF call.from.kind = "locate"
        THEN afterGetAndCompute(call.from,
                 IF threw THEN [s1 EXCEPT !.locError = "notification"] ELSE s1)
        ELSE s1

\* the render after setToday: the effects on [uid, today] and on
\* [today, coords, uid] run again with the values of this render, and the
\* first of them starts setup() anew
afterTodayChange(st) ==
    [st EXCEPT !.eff = Closure(st),
               !.tick = Closure(st),
               !.tasks = @ (+) SetToBag({[kind |-> "setup", closure |-> Closure(st),
                                          setup |-> TRUE]})]

\* tick() without the reset of the checklist
tick_noreset(st, now) ==
    IF Day(now) = st.today THEN st
    ELSE LET s1 == [st EXCEPT !.today = Day(now),
                              !.loads = @ \cup {Day(now)}]
             s2 == IF st.tick.coords # None
                   THEN rescheduleNextIfReady(st.tick, Unawaited,
                            computeTimes(st.tick, st.tick.coords, s1, now), now)
                   ELSE s1
         IN  afterTodayChange(s2)

\* tick(), with the closure of the effect on [today, coords, uid]
tick(st, now) ==
    IF Day(now) = st.today THEN st
    ELSE LET s1 == [st EXCEPT !.today = Day(now),
                              !.checklist = [k \in PrayerKeys |-> FALSE],
                              !.loads = @ \cup {Day(now)}]
             s2 == IF st.tick.coords # None
                   THEN rescheduleNextIfReady(st.tick, Unawaited,
                            computeTimes(st.tick, st.tick.coords, s1, now), now)
                   ELSE s1
         IN  afterTodayChange(s2)

\* the render after setCoords: the effect on [today, coords, uid] runs again
\* and calls tick() at once
afterCoordsChange(st, now) == tick([st EXCEPT !.tick = Closure(st)], now)

\* the render after a change of calcMethod, madhab or highLat: the effect on
\* these three runs, with the values of this render
afterPrefsChange(st, now) ==
    IF st.coords # None
    THEN rescheduleNextIfReady(Closure(st), Unawaited,
             computeTimes(Closure(st), st.coords, st, now), now)
    ELSE st

\* loadChecklistForDay: the checklist built from the rows of that day
loadChecklistForDay(rows, day, user) ==
    [k \in PrayerKeys |->
        \E r \in rows : r.user_id = user /\ r.day = day /\ r.prayer = k /\ r.completed]

\* saveCheckin up to its await, called from a render whose uid, today and
\* checklist are those of cl: without a uid it returns at once; otherwise the
\* upsert is sent, and willBeAllDone will be decided from cl.checklist
saveCheckin(cl, prayer, completed, now, sv) ==
    IF cl.uid = None THEN sv
    ELSE sv (+) SetToBag({[pc |-> "upsert",
                           user_id |-> cl.uid, day |-> cl.today,
                           prayer |-> prayer, completed |-> completed,
                           completed_at |-> IF completed THEN now ELSE NoTime,
                           willBeAllDone |->
                               \A q \in PrayerKeys :
                                   IF q = prayer THEN completed ELSE cl.checklist[q],
                           madeAllDone |-> FALSE]})

\* the render in which the effect on [] registered the tap listener: the
\* session has not arrived yet, no position is known, nothing is checked
FirstRender ==
    [uid |-> None, today |-> 0, checklist |-> [k \in PrayerKeys |-> FALSE]]

\* the app is opened in the evening; the session has just arrived, setup()
\* has been started by the effect on [uid, today], and no position is known
InitHome ==
    /\ clock = DayLen - 2
    /\ scheduled = EmptyBag
    /\ inflight = <<>>
    /\ returned = NoCall
    /\ hToday = Day(clock)
    /\ hCoords = None
    /\ hPrefs = FIXED_MWL_PREFS
    /\ effClosure = NoClosure
    /\ tickClosure = NoClosure
    /\ rescheduleLock = FALSE
    /\ lockTimers = 0
    /\ tasks = SetToBag({[kind |-> "setup", closure |-> NoClosure, setup |-> TRUE]})
    /\ hTrig = "none"
    /\ locError = None
    /\ loadingTimes = FALSE
    /\ hTimes = NoTimes
    /\ checklist = [k \in PrayerKeys |-> FALSE]
    /\ loads = {}
    /\ SelIdle
    /\ StreakIdle
    /\ DataIdle

homeRest == <<clock, scheduled, returned, selVars, streakVars, dataVars>>

\* setup(): loadProfilePrefs resolves with the stored preferences, then
\* getAndComputeWithCurrentLocation is called
HomeSetupPrefs ==
    \E t \in BagToSet(tasks), p \in PrefSet :
        LET s1 == [HomeState EXCEPT !.prefs = p, !.tasks = @ (-) SetToBag({t})]
            s2 == startLocate(t.closure, TRUE, s1)
        IN  /\ t.kind = "setup"
            /\ Commit(IF p # hPrefs THEN afterPrefsChange(s2, clock) ELSE s2)
            /\ UNCHANGED homeRest

\* AppState becomes 'active': the listener of the effect on [uid, today]
\* calls getAndComputeWithCurrentLocation and loadChecklistForDay(today, uid)
HomeForeground ==
    LET s1 == startLocate(effClosure, FALSE, HomeState)
    IN  /\ Commit([s1 EXCEPT !.loads = @ \cup {effClosure.today}])
        /\ UNCHANGED homeRest

\* the 5-minute interval of the same effect
HomeGpsTimer ==
    /\ Commit(startLocate(effClosure, FALSE, HomeState))
    /\ UNCHANGED homeRest

\* the button "Try again", shown while no times are displayed
HomeRetry ==
    /\ hTimes = NoTimes
    /\ Commit(startLocate(Closure(HomeState), FALSE, HomeState))
    /\ UNCHANGED homeRest

\* getAndComputeWithCurrentLocation: the position arrives
HomeLocateResolves ==
    \E t \in BagToSet(tasks), c \in CoordSet :
        LET s1 == [HomeState EXCEPT !.coords = c, !.tasks = @ (-) SetToBag({t})]
            s2 == rescheduleNextIfReady(t.closure, Awaited(t),
                                        computeTimes(t.closure, c, s1, clock), clock)
            s3 == IF Len(s2.calls) > Len(s1.calls) THEN s2
                  ELSE afterGetAndCompute(Awaited(t), s2)
        IN  /\ t.kind = "locate"
            /\ Commit(afterCoordsChange(s3, clock))
            /\ UNCHANGED homeRest

\* getAndComputeWithCurrentLocation: permission denied, or the fetch throws
HomeLocateFails ==
    \E t \in BagToSet(tasks) :
        LET s1 == [HomeState EXCEPT !.locError = "location", !.tasks = @ (-) SetToBag({t})]
        IN  /\ t.kind = "locate"
            /\ Commit(afterGetAndCompute(Awaited(t), s1))
            /\ UNCHANGED homeRest

\* loadChecklistForDay resolves: the select and its reply in one step (what
\* can happen between the two is in CheckLoadReads and CheckLoadArrives)
HomeLoadChecklist ==
    \E d \in loads, u \in Users :
        /\ Commit([HomeState EXCEPT
                       !.loads = @ \ {d},
                       !.checklist = loadChecklistForDay(checkins, d, u)])
        /\ UNCHANGED homeRest

\* the 15-second poll finds a new day
HomeDayTick ==
    /\ Day(clock) # hToday
    /\ Commit(tick(HomeState, clock))
    /\ UNCHANGED homeRest

\* the prayers whose notification is tapped
TapKeys == {"isha"}

\* a tap on a prayer notification: the listener was registered by the effect
\* on [], so it runs with the uid and coords (both null) of the first render;
\* saveCheckin returns at `if (!uid) return`
HomeNotificationTap ==
    \E k \in TapKeys :
        /\ Commit(rescheduleNextIfReady(NoClosure, Unawaited,
                      [HomeState EXCEPT !.checklist[k] = TRUE], clock))
        /\ saves' = saveCheckin(FirstRender, k, TRUE, clock, saves)
        /\ UNCHANGED <<clock, scheduled, returned, selVars, streakVars>>
        /\ UNCHANGED <<checkins, dayRows, ckOp, asyncStorage, alerts, loadReplies>>
        /\ UNCHANGED <<buddyVars, onlineVars>>

homeCallRest == <<clock, returned, selVars, streakVars, dataVars>>

\* cancel-all resolves for the call in progress; with no prayer left the call
\* returns null
HomeCancelResolves ==
    \E i \in 1..Len(inflight) :
        LET call == afterCancel(inflight[i], scheduled)
        IN  /\ inflight[i].pc = "cancel"
            /\ scheduled' = cancelAllPrayerNotifications(scheduled)
            /\ IF call.pc = "settled"
               THEN Commit(afterReschedule(call, FALSE,
                        [HomeState EXCEPT !.calls = RemoveAt(@, i)]))
               ELSE Commit([HomeState EXCEPT !.calls[i] = call])
            /\ UNCHANGED homeCallRest

HomeCancelRejects ==
    \E i \in 1..Len(inflight) :
        /\ inflight[i].pc = "cancel"
        /\ Commit(afterReschedule(inflight[i], TRUE,
                      [HomeState EXCEPT !.calls = RemoveAt(@, i)]))
        /\ UNCHANGED scheduled
        /\ UNCHANGED homeCallRest

HomeScheduleResolves ==
    \E i \in 1..Len(inflight) :
        /\ inflight[i].pc = "schedule"
        /\ scheduled' = scheduled (+) SetToBag({afterSchedule(inflight[i]).made[1]})
        /\ Commit(afterReschedule(inflight[i], FALSE,
                      [HomeState EXCEPT !.calls = RemoveAt(@, i)]))
        /\ UNCHANGED homeCallRest

HomeScheduleRejects ==
    \E i \in 1..Len(inflight) :
        /\ inflight[i].pc = "schedule"
        /\ Commit(afterReschedule(inflight[i], TRUE,
                      [HomeState EXCEPT !.calls = RemoveAt(@, i)]))
        /\ UNCHANGED scheduled
        /\ UNCHANGED homeCallRest

\* setTimeout(() => { rescheduleLock.current = false; }, 800) fires
HomeLockTimer ==
    /\ lockTimers > 0
    /\ Commit([HomeState EXCEPT !.timers = @ - 1, !.lock = FALSE])
    /\ UNCHANGED <<scheduled, homeCallRest>>

\* the clock, followed up to the first instant of the next day
HomeClockTick ==
    /\ clock < DayLen
    /\ ClockTick

NextHome ==
    \/ HomeSetupPrefs
    \/ HomeForeground
    \/ HomeGpsTimer
    \/ HomeRetry
    \/ HomeLocateResolves
    \/ HomeLocateFails
    \/ HomeLoadChecklist
    \/ HomeDayTick
    \/ HomeNotificationTap
    \/ HomeCancelResolves
    \/ HomeCancelRejects
    \/ HomeScheduleResolves
    \/ HomeScheduleRejects
    \/ HomeLockTimer
    \/ Fire
    \/ HomeClockTick

SpecHome == InitHome /\ [][NextHome]_vars

\* the Home screen with the triggers that start a reschedule, the replies and
\* the timer of the lock
NextLock ==
    \/ HomeSetupPrefs
    \/ HomeForeground
    \/ HomeDayTick
    \/ HomeClockTick
    \/ HomeLocateResolves
    \/ HomeLocateFails
    \/ HomeLoadChecklist
    \/ HomeCancelResolves
    \/ HomeCancelRejects
    \/ HomeScheduleResolves
    \/ HomeScheduleRejects
    \/ HomeLockTimer

\* an event loop that runs every timer that is due
SpecLock ==
    /\ InitHome
    /\ [][NextLock]_vars
    /\ WF_vars(HomeLockTimer)

----------------------------------------------------------------------------
(* The checklist of the Home screen and the tables prayer_checkins and
   prayer_completions *)

MaxSaves == 2     \* saveCheckin calls awaiting a reply at once

\* the signed-in user
Uid == CHOOSE u \in Users : TRUE

\* what the callbacks of the current render see
Render == [uid |-> Uid, today |-> hToday, checklist |-> checklist]

SameKey(r, q) ==
    /\ r.user_id = q.user_id
    /\ r.day = q.day
    /\ r.prayer = q.prayer

\* the row of prayer_checkins made from the payload of a save
RowOf(p) ==
    [user_id |-> p.user_id, day |-> p.day, prayer |-> p.prayer,
     completed |-> p.completed, completed_at |-> p.completed_at]

\* an insert that takes no notice of the row already there
upsertCheckin_insert(rows, p) == rows \cup {RowOf(p)}

\* upsert(payload, { onConflict: 'user_id,day,prayer' }) on prayer_checkins,
\* under the constraint unique_user_prayer_day
upsertCheckin(rows, p) == {r \in rows : ~SameKey(r, p)} \cup {RowOf(p)}

\* upsert({ user_id, day, completed_at }, { onConflict: 'user_id,day' }) on
\* prayer_completions, under UNIQUE(user_id, day)
upsertCompletion(rows, userId, dayStr) ==
    LET row == [user_id |-> userId, day |-> dayStr]
    IN  IF BagIn(row, rows) THEN rows ELSE rows (+) SetToBag({row})

\* every prayer of that day has a row with completed = true
AllFive(rows, userId, dayStr) ==
    \A k \in PrayerKeys :
        \E r \in rows : /\ r.user_id = userId
                         /\ r.day = dayStr
                         /\ r.prayer = k
                         /\ r.completed

\* the prayers checked in an earlier session of the same day
DoneBefore == {{}, {"fajr", "dhuhr", "asr"}, {"fajr", "dhuhr", "asr", "maghrib"}}

\* the prayers whose switch is used
ToggleKeys == {"maghrib", "isha"}

\* the screen has just been opened at the instant `now` by a signed-in user:
\* nothing is checked on it yet, and the rows of today have been asked for
InitCheckinAt(now) ==
    /\ clock = now
    /\ scheduled = EmptyBag
    /\ inflight = <<>>
    /\ returned = NoCall
    /\ SelIdle
    /\ StreakIdle
    /\ hToday = Day(clock)
    /\ hCoords = None
    /\ hPrefs = FIXED_MWL_PREFS
    /\ effClosure = NoClosure
    /\ tickClosure = NoClosure
    /\ rescheduleLock = FALSE
    /\ lockTimers = 0
    /\ tasks = EmptyBag
    /\ hTrig = "none"
    /\ locError = None
    /\ loadingTimes = FALSE
    /\ hTimes = NoTimes
    /\ checklist = [k \in PrayerKeys |-> FALSE]
    /\ loads = {hToday}
    /\ \E D \in DoneBefore :
           checkins = {[user_id |-> Uid, day |-> hToday, prayer |-> k,
                        completed |-> TRUE, completed_at |-> 1] : k \in D}
    /\ dayRows = EmptyBag
    /\ saves = EmptyBag
    /\ ckOp = NoCall
    /\ asyncStorage = {}
    /\ alerts = EmptyBag
    /\ loadReplies = {}
    /\ BuddyIdle
    /\ OnlineIdle

\* the screen opened in the evening; what follows happens within one
\* instant of the clock
InitCheckin == InitCheckinAt(DayLen - 2)

checkRest == <<schedVars, selVars, streakVars, buddyVars, onlineVars,
               hToday, hCoords, hPrefs, effClosure, tickClosure,
               rescheduleLock, lockTimers, tasks, hTrig,
               locError, loadingTimes, hTimes, loads>>

loadRest == <<schedVars, selVars, streakVars, buddyVars, onlineVars,
              hToday, hCoords, hPrefs, effClosure, tickClosure,
              rescheduleLock, lockTimers, tasks, hTrig,
              locError, loadingTimes, hTimes>>

\* AppState becomes 'active' on a screen that shows the times already:
\* loadChecklistForDay(today, uid) is called by the listener of the effect on
\* [uid, today]
CheckReload ==
    /\ BagCardinality(tasks) + Cardinality(loads) + Cardinality(loadReplies) < MaxTasks
    /\ loads' = loads \cup {effClosure.today}
    /\ UNCHANGED <<checkins, dayRows, saves, ckOp, checklist, loadRest>>
    /\ UNCHANGED <<asyncStorage, alerts, loadReplies>>

\* loadChecklistForDay: the select reaches prayer_checkins and reads the
\* rows of the day
CheckLoadReads ==
    \E d \in loads, u \in Users :
        /\ loads' = loads \ {d}
        /\ loadReplies' = loadReplies \cup
                              {[day |-> d, next |-> loadChecklistForDay(checkins, d, u)]}
        /\ UNCHANGED <<checkins, dayRows, saves, ckOp, checklist, loadRest>>
        /\ UNCHANGED <<asyncStorage, alerts>>

\* loadChecklistForDay: the reply arrives and setChecklist(next) is called
CheckLoadArrives ==
    \E r \in loadReplies :
        /\ loadReplies' = loadReplies \ {r}
        /\ checklist' = r.next
        /\ UNCHANGED <<checkins, dayRows, saves, ckOp, loads, loadRest>>
        /\ UNCHANGED <<asyncStorage, alerts>>

\* onToggle(key)(v): the switch of a prayer is flipped
CheckToggle ==
    \E k \in ToggleKeys :
        LET v == ~checklist[k]
        IN  /\ BagCardinality(saves) < MaxSaves
            /\ checklist' = [checklist EXCEPT ![k] = v]
            /\ saves' = saveCheckin(Render, k, v, clock, saves)
            /\ UNCHANGED <<checkins, dayRows, ckOp, checkRest>>
            /\ UNCHANGED <<asyncStorage, alerts, loadReplies>>

\* the upsert of a save reaches prayer_checkins and is answered without
\* error; saveCheckin goes on to maybeShowCongrats when willBeAllDone
CheckUpsertArrives ==
    \E s \in BagToSet(saves) :
        LET rows == upsertCheckin(checkins, s)
            made == AllFive(rows, s.user_id, s.day)
        IN  /\ s.pc = "upsert"
            /\ checkins' = rows
            /\ saves' = (saves (-) SetToBag({s})) (+)
                         (IF s.willBeAllDone
                          THEN SetToBag({[s EXCEPT !.pc = "select",
                                                   !.madeAllDone = made]})
                          ELSE EmptyBag)
            /\ ckOp' = [pc |-> "saved", req |-> RowOf(s),
                        rows |-> Cardinality(checkins),
                        had |-> \E r \in checkins : SameKey(r, s),
                        madeAllDone |-> made,
                        willBeAllDone |-> s.willBeAllDone]
            /\ UNCHANGED <<dayRows, checklist, checkRest>>
            /\ UNCHANGED <<asyncStorage, alerts, loadReplies>>

\* the upsert is answered with an error: saveCheckin does nothing more
CheckUpsertFails ==
    \E s \in BagToSet(saves) :
        /\ s.pc = "upsert"
        /\ saves' = saves (-) SetToBag({s})
        /\ UNCHANGED <<checkins, dayRows, ckOp, checklist, checkRest>>
        /\ UNCHANGED <<asyncStorage, alerts, loadReplies>>

\* `congrats_shown_${userId}_${dayStr}`
keyLocal(userId, dayStr) == [user_id |-> userId, day |-> dayStr]

\* maybeShowCongrats: the select on prayer_completions is answered; with a
\* row there the function returns, otherwise it asks AsyncStorage for keyLocal
CheckSelectArrives ==
    \E s \in BagToSet(saves) :
        /\ s.pc = "select"
        /\ saves' = (saves (-) SetToBag({s})) (+)
                     (IF BagIn([user_id |-> s.user_id, day |-> s.day], dayRows)
                      THEN EmptyBag
                      ELSE SetToBag({[s EXCEPT !.pc = "getItem"]}))
        /\ UNCHANGED <<checkins, dayRows, ckOp, checklist, checkRest>>
        /\ UNCHANGED <<asyncStorage, alerts, loadReplies>>

\* maybeShowCongrats: AsyncStorage.getItem(keyLocal) resolves; when the key
\* is not set the alert is shown and setItem(keyLocal, '1') is issued
CheckGetItem ==
    \E s \in BagToSet(saves) :
        LET shown == keyLocal(s.user_id, s.day) \in asyncStorage
        IN  /\ s.pc = "getItem"
            /\ alerts' = IF shown THEN alerts
                         ELSE alerts (+) SetToBag({keyLocal(s.user_id, s.day)})
            /\ saves' = (saves (-) SetToBag({s})) (+)
                         SetToBag({[s EXCEPT !.pc = IF shown THEN "complete"
                                                    ELSE "setItem"]})
            /\ UNCHANGED <<checkins, dayRows, ckOp, checklist, checkRest>>
            /\ UNCHANGED <<asyncStorage, loadReplies>>

\* maybeShowCongrats: setItem(keyLocal, '1') resolves, and the upsert on
\* prayer_completions is sent
CheckSetItem ==
    \E s \in BagToSet(saves) :
        /\ s.pc = "setItem"
        /\ asyncStorage' = asyncStorage \cup {keyLocal(s.user_id, s.day)}
        /\ saves' = (saves (-) SetToBag({s})) (+) SetToBag({[s EXCEPT !.pc = "complete"]})
        /\ UNCHANGED <<checkins, dayRows, ckOp, checklist, checkRest>>
        /\ UNCHANGED <<alerts, loadReplies>>

\* maybeShowCongrats: the upsert reaches prayer_completions
CheckCompleteArrives ==
    \E s \in BagToSet(saves) :
        /\ s.pc = "complete"
        /\ dayRows' = upsertCompletion(dayRows, s.user_id, s.day)
        /\ saves' = saves (-) SetToBag({s})
        /\ UNCHANGED <<checkins, ckOp, checklist, checkRest>>
        /\ UNCHANGED <<asyncStorage, alerts, loadReplies>>

\* the upsert on prayer_completions fails; the error is not looked at
CheckCompleteFails ==
    \E s \in BagToSet(saves) :
        /\ s.pc = "complete"
        /\ saves' = saves (-) SetToBag({s})
        /\ UNCHANGED <<checkins, dayRows, ckOp, checklist, checkRest>>
        /\ UNCHANGED <<asyncStorage, alerts, loadReplies>>

NextCheckin ==
    \/ CheckToggle
    \/ HomeNotificationTap
    \/ CheckLoadReads
    \/ CheckLoadArrives
    \/ CheckUpsertArrives
    \/ CheckUpsertFails
    \/ CheckSelectArrives
    \/ CheckGetItem
    \/ CheckSetItem
    \/ CheckCompleteArrives
    \/ CheckCompleteFails

SpecCheckin == InitCheckin /\ [][NextCheckin]_vars

\* the screen opened on a day with no prayer checked yet
InitReload ==
    /\ InitCheckin
    /\ checkins = {}

\* the switches, the reloads of the checklist and the replies of
\* prayer_checkins; with maghrib and isha alone no save finds all five done
NextReload ==
    \/ CheckToggle
    \/ CheckReload
    \/ CheckLoadReads
    \/ CheckLoadArrives
    \/ CheckUpsertArrives
    \/ CheckUpsertFails

SpecReload == InitReload /\ [][NextReload]_vars

\* the same screen left open across midnight: the clock, the 15-second poll
\* that finds the new day, the switches, the loads and the saves that succeed
NextMidnight ==
    \/ HomeClockTick
    \/ HomeDayTick
    \/ CheckToggle
    \/ HomeLoadChecklist
    \/ CheckUpsertArrives

\* the screen opened at the last instant of a day with no prayer checked yet
InitMidnight ==
    /\ InitCheckinAt(DayLen - 1)
    /\ checkins = {}

SpecMidnight == InitMidnight /\ [][NextMidnight]_vars

----------------------------------------------------------------------------
(* Properties of the scheduler *)

TimesOf(call) == computeTodayPrayerDates(call.coords, call.prefs, call.now)

AllPassed(call) == \A k \in PrayerKeys : TimesOf(call)[k] + call.grace <= call.now

\* C1: at most one prayer notification is ever pending, and a call that
\* repeats the call before it (same inputs, same clock reading) leaves the
\* same pending prayer notification as that call did.
C1_AtMostOnePending ==
    /\ CountType(scheduled, "prayer") <= 1
    /\ (/\ returned # NoCall
        /\ returned.repeats # NoCall
        /\ returned.result # "threw"
        /\ returned.now = clock)
       => OfType(returned.after, "prayer") = OfType(returned.repeats.after, "prayer")

C1_Witness ==
    /\ returned # NoCall
    /\ returned.repeats # NoCall
    /\ returned.result \in PrayerKeys
    /\ returned.now = clock
    /\ returned.cancelled = 1
    /\ CountType(scheduled, "prayer") = 1

\* C4: when all five of today's prayers are due (grace included) the call
\* returns none, has scheduled nothing and leaves no prayer notification
\* pending, the ones pending before it included.
C4_NoneAfterIsha ==
    (returned # NoCall /\ returned.result # "threw" /\ AllPassed(returned))
    => /\ returned.result = None
       /\ returned.made = <<>>
       /\ returned.cancelled >= 0
       /\ CountType(returned.after, "prayer") = 0

C4_Witness ==
    /\ returned # NoCall
    /\ AllPassed(returned)
    /\ returned.result = None
    /\ returned.cancelled = 1
    /\ returned.now + DayLen <= MaxClock

\* C5: nothing is scheduled by a call before its cancel-all has completed; a
\* call that returns key k has scheduled exactly one notification, of type
\* prayer for k at today's time of k plus the grace; a call that returns none
\* has scheduled nothing.
C5_CancelThenOne ==
    /\ \A i \in 1..Len(inflight) :
          /\ inflight[i].made = <<>>
          /\ inflight[i].pc = "schedule" => inflight[i].cancelled >= 0
    /\ (returned # NoCall /\ returned.result \in PrayerKeys)
       => /\ returned.cancelled >= 0
          /\ Len(returned.made) = 1
          /\ returned.made[1].type = "prayer"
          /\ returned.made[1].prayer = returned.result
          /\ returned.made[1].fireAt = TimesOf(returned)[returned.result] + returned.grace
          /\ OfType(returned.after, "prayer") = SetToBag({returned.made[1]})
    /\ (returned # NoCall /\ returned.result \notin PrayerKeys)
       => returned.made = <<>>

C5_Witness ==
    /\ returned # NoCall
    /\ returned.result \in PrayerKeys
    /\ returned.grace = 1
    /\ returned.cancelled = 1
    /\ BagCardinality(returned.after) = 2

\* C3: the selection is the first prayer in canonical order whose time plus
\* the grace is strictly after now, and none when there is no such prayer; on
\* the example it is Asr at 16:00.
C3_FirstStrictlyAfter ==
    selOut # NoCall =>
        LET cand == {i \in 1..Len(order) :
                        selIn.times[order[i]] + selIn.grace > selIn.now}
        IN  /\ cand = {} => selOut.key = None
            /\ cand # {} =>
                  LET first == CHOOSE i \in cand : \A j \in cand : i <= j
                  IN  /\ selOut.key = order[first]
                      /\ selOut.time = selIn.times[order[first]] + selIn.grace
                      /\ selOut.time > selIn.now
            /\ selIn = ExampleSel => (selOut.key = "asr" /\ selOut.time = 960)

C3_Witness ==
    /\ selIn = ExampleSel
    /\ selOut # NoCall
    /\ selOut.key = "asr"

----------------------------------------------------------------------------
(* Properties of the streak functions *)

RECURSIVE RunEndingAt(_, _)
RunEndingAt(days, d) == IF d \notin days THEN 0 ELSE 1 + RunEndingAt(days, d - 1)

LongestRun(days) ==
    IF days = {} THEN 0 ELSE MaxOf({RunEndingAt(days, d) : d \in days})

Recomputes == {"INSERT", "UPDATE", "DELETE", "update_all_streaks"}

TriggerOps == {"INSERT", "UPDATE", "DELETE"}

\* C6: an insert, update or delete of a completion row, or the bulk update,
\* never leaves a stored longest_streak below the one stored before it.
C6_LongestNeverDecreases ==
    lastOp.op \in Recomputes =>
        \A u \in Users : profiles[u].longest_streak >= lastOp.before[u].longest_streak

C6_Witness ==
    /\ lastOp.op = "DELETE"
    /\ \E u \in Users :
          /\ profiles[u].longest_streak = lastOp.before[u].longest_streak
          /\ profiles[u].longest_streak > LongestRun(completions[u])
          /\ completions[u] # {}

\* C7: the stored longest_streak is never below the stored current_streak.
C7_LongestAtLeastCurrent ==
    \A u \in Users : profiles[u].longest_streak >= profiles[u].current_streak

C7_Witness ==
    /\ lastOp.op \in TriggerOps
    /\ \E u \in Users :
          /\ profiles[u].current_streak >= 2
          /\ profiles[u].longest_streak > profiles[u].current_streak

\* C8: the current streak computed for a non-empty set of days is the length
\* of the run of consecutive days that ends at the most recent day.
C8_CurrentIsRunAtMostRecent ==
    (lastOp.op \in TriggerOps /\ completions[lastOp.user] # {})
    => lastOp.streak_result.current_streak
          = RunEndingAt(completions[lastOp.user], MaxOf(completions[lastOp.user]))

\* C9: the longest streak computed for a set of days is the length of its
\* longest run of consecutive days, 0 for the empty set.
C9_LongestIsLongestRun ==
    lastOp.op \in TriggerOps
    => lastOp.streak_result.longest_streak = LongestRun(completions[lastOp.user])

C9_Witness ==
    /\ lastOp.op \in TriggerOps
    /\ LET days == completions[lastOp.user]
       IN  /\ lastOp.streak_result.longest_streak = 3
           /\ RunEndingAt(days, MaxOf(days)) = 1
           /\ Cardinality(days) = 4

----------------------------------------------------------------------------
(* Properties of the Home screen's reschedule lock *)

\* the steps in which rescheduleNextIfReady may be called
HomeTrigger ==
    \/ HomeSetupPrefs
    \/ HomeLocateResolves
    \/ HomeDayTick
    \/ HomeNotificationTap

\* C2: for one Home screen, whatever the order of the triggers, at most one
\* reschedule sequence (cancel-all, then schedule) is in progress at any time:
\* a sequence starts only in a step that finds the lock clear and sets it; a
\* trigger that arrives while the lock is set cancels nothing, schedules
\* nothing and starts nothing; and the step that clears the lock starts
\* nothing either, so a dropped trigger was not queued.
C2_OneRescheduleAtATime ==
    /\ [](Len(inflight) <= 1 /\ (inflight # <<>> => rescheduleLock))
    /\ [][/\ Len(inflight') > Len(inflight) => ~rescheduleLock /\ rescheduleLock'
          /\ rescheduleLock /\ HomeTrigger =>
                 /\ inflight' = inflight
                 /\ scheduled' = scheduled
                 /\ lockTimers' = lockTimers
          /\ rescheduleLock /\ ~rescheduleLock' => inflight' = inflight]_vars

\* a trigger has found the lock set while a sequence was in progress
C2_Witness ==
    /\ hTrig = "locked"
    /\ Len(inflight) = 1
    /\ rescheduleLock

----------------------------------------------------------------------------
(* Properties of the sound, of isUserOnline and of the buddy links *)

\* C19: a call with playSound = false schedules its notification without a
\* sound, and a call with playSound = true (or with the option left out)
\* schedules it with the adhan sound.
C19_SoundFollowsPlaySound ==
    (returned # NoCall /\ returned.made # <<>>) =>
        returned.made[1].sound = (IF returned.playSound THEN "adhan1" ELSE None)

\* C20: isUserOnline(lastActiveAt) is true exactly when now - lastActiveAt is
\* less than 5 minutes, to the second, and false when lastActiveAt is null.
C20_OnlineWithinFiveMinutes ==
    onOut # NoCall =>
        onOut.result = (/\ onIn.lastActiveAt # NoTime
                        /\ onIn.now - onIn.lastActiveAt < OnlineMinutes * SecondsPerMinute)

\* the answer exactly at the boundary, and one second before it
C20_Witness ==
    /\ onOut # NoCall
    /\ onIn.lastActiveAt # NoTime
    /\ onIn.now - onIn.lastActiveAt = OnlineMinutes * SecondsPerMinute
    /\ onOut.result = FALSE

SamePair(r, q) == {r.user_a, r.user_b} = {q.user_a, q.user_b}

----------------------------------------------------------------------------
(* Properties of the Home screen's location fetch, taps and day change *)

\* a prayer of the day of `now` is still ahead at the position c
PrayerAhead(c, prefs, now) ==
    nextPrayer(computeTodayPrayerDates(c, prefs, now), now, 0).key # None

\* the Home screen has nothing left to do: no request awaits a reply, no
\* reschedule is in progress and the day shown is the day of the clock
HomeQuiet ==
    /\ tasks = EmptyBag
    /\ inflight = <<>>
    /\ hToday = Day(clock)

\* C11: when the first location fetch after the start of the app succeeds,
\* the scheduler is invoked in that step with the coordinates just acquired,
\* for the next prayer of the day; and once the screen has come to rest with a
\* position known and a prayer of the day still ahead, a prayer notification
\* is pending, no further trigger being needed.
C11_FirstFetchSchedules ==
    /\ [][(hCoords = None /\ hCoords' # None) =>
              /\ Len(inflight') = 1
              /\ inflight'[1].coords = hCoords'
              /\ inflight'[1].nextKey =
                     nextPrayer(computeTodayPrayerDates(hCoords', hPrefs', clock),
                                clock, 0).key]_vars
    /\ []((HomeQuiet /\ hCoords # None /\ PrayerAhead(hCoords, hPrefs, clock)) =>
              CountType(scheduled, "prayer") >= 1)

\* C12: when a signed-in user taps a notification {type: prayer, prayer: k},
\* a save of the check-in (user, today, k, completed = true) is sent to the
\* database, and the scheduler is invoked again in that step unless the lock
\* is set.
C12_TapSavesAndReschedules ==
    [][HomeNotificationTap =>
          /\ \E r \in BagToSet(saves') :
                 /\ r.user_id \in Users
                 /\ r.day = hToday
                 /\ r.prayer \in TapKeys
                 /\ r.completed
                 /\ saves' = saves (+) SetToBag({r})
          /\ (hCoords # None /\ ~rescheduleLock) =>
                 /\ Len(inflight') = Len(inflight) + 1
                 /\ rescheduleLock']_vars

\* what the day poll does besides rescheduling: the stored day becomes the
\* day of the clock, the checklist is all false and its rows for the new day
\* are requested
DayTickResets ==
    /\ hToday' = Day(clock)
    /\ checklist' = [k \in PrayerKeys |-> FALSE]
    /\ Day(clock) \in loads'

\* the step has started one reschedule, with the known coordinates and the
\* clock of the new day, whose target (if any) is a prayer of that day
DayTickReschedules ==
    /\ Len(inflight') = Len(inflight) + 1
    /\ LET call == inflight'[Len(inflight')]
       IN  /\ call.coords = hCoords
           /\ call.now = clock
           /\ call.nextKey # None => Day(call.nextTime) = Day(clock)

\* C13 as stated: when the day poll finds a new date and coordinates are
\* known, the stored day is updated, the checklist is reset and reloaded for
\* the new day, and the scheduler is invoked again, aiming at a prayer of the
\* new day.
C13_DayTickReschedules ==
    [][(HomeDayTick /\ hCoords # None) =>
          (DayTickResets /\ DayTickReschedules)]_vars

\* C13, amended: as above, except that when the reschedule lock is set at
\* that moment the scheduler is not invoked and the trigger is dropped: the
\* calls in progress and the pending notifications stay as they were.
C13_DayTickReschedulesUnlessLocked ==
    [][(HomeDayTick /\ hCoords # None) =>
          /\ DayTickResets
          /\ IF rescheduleLock
             THEN inflight' = inflight /\ scheduled' = scheduled
             ELSE DayTickReschedules]_vars

\* the day has changed and the reschedule for the new day is in progress,
\* while setup() for the new day has not yet got its reply
C13_Witness ==
    /\ hToday = 1
    /\ Day(clock) = 1
    /\ hCoords # None
    /\ checklist = [k \in PrayerKeys |-> FALSE]
    /\ 1 \in loads
    /\ tasks = SetToBag({[kind |-> "setup", closure |-> Closure(HomeState),
                          setup |-> TRUE]})
    /\ Len(inflight) = 1
    /\ inflight[1].from = Unawaited
    /\ inflight[1].now = clock
    /\ inflight[1].nextKey = "fajr"

\* C14: when cancel-all or schedule fails during a reschedule, whichever
\* trigger started it, the failure is swallowed: the error shown to the user
\* (locError) and the displayed prayer times are what they were before.
C14_NotificationFailureSwallowed ==
    [][(HomeCancelRejects \/ HomeScheduleRejects) =>
          /\ locError' = locError
          /\ hTimes' = hTimes]_vars

\* C15: when the permission is denied or the position fetch fails, an error
\* is shown, the loading flag is cleared, no cancel-all and no schedule is
\* performed, and the stored coordinates, the displayed times and the pending
\* notifications are unchanged; a retry by the user clears the error when it
\* starts, and the arrival of the position does not set one.
C15_LocationFailureSurfaced ==
    [][/\ HomeLocateFails =>
             /\ locError' # None
             /\ ~loadingTimes'
             /\ inflight' = inflight
             /\ scheduled' = scheduled
             /\ hCoords' = hCoords
             /\ hTimes' = hTimes
       /\ HomeRetry => locError' = None
       /\ HomeLocateResolves => locError' = locError]_vars

\* a refresh of the position has failed while a position was known and a
\* prayer notification was pending: both are still there, the error is shown
C15_Witness ==
    /\ locError = "location"
    /\ ~loadingTimes
    /\ hCoords # None
    /\ inflight = <<>>
    /\ CountType(scheduled, "prayer") = 1

----------------------------------------------------------------------------
(* Properties of the check-ins and of the completion rows *)

\* C17: after any toggles and taps, prayer_checkins has at most one row per
\* (user, day, prayer); a save for a key that has a row replaces that row
\* (completed flag and completion time, null when false) and adds none; a
\* save for a new key adds one row; no save takes a row away.
C17_OneCheckinPerKey ==
    /\ \A r, q \in checkins : SameKey(r, q) => r = q
    /\ \A r \in checkins : r.completed_at = NoTime <=> ~r.completed
    /\ ckOp.pc = "saved" =>
           /\ ckOp.req \in checkins
           /\ Cardinality(checkins) = ckOp.rows + (IF ckOp.had THEN 0 ELSE 1)

\* a switch has been flipped on and off again: the second save has replaced
\* the row of the first
C17_Witness ==
    /\ ckOp.pc = "saved"
    /\ ckOp.had
    /\ ~ckOp.req.completed
    /\ ckOp.req.completed_at = NoTime
    /\ Cardinality(checkins) = ckOp.rows

\* C18: a row of prayer_completions for (user, day) is written when, and only
\* when, a save of a check-in makes all five prayers of that day completed in
\* prayer_checkins: the save that does so goes on to write the row, a save
\* that leaves fewer than five completed does not, and there is never more
\* than one row for (user, day).
C18_CompletionIffAllFive ==
    /\ ckOp.pc = "saved" => (ckOp.willBeAllDone <=> ckOp.madeAllDone)
    /\ \A s \in BagToSet(saves) :
           s.pc \in {"select", "getItem", "setItem", "complete"} => s.madeAllDone
    /\ \A r \in BagToSet(dayRows) : CopiesIn(r, dayRows) = 1

----------------------------------------------------------------------------
(* Properties of the scheduler's frame, of formatLastActive and of the lock *)

\* C29: scheduleNextPrayerNotification changes only the scheduled
\* notifications of type prayer: whatever step of a call is taken, the
\* pending notifications of type test are the same after it as before.
C29_OtherTypesUntouched ==
    [][(CancelResolves \/ CancelRejects \/ ScheduleResolves \/ ScheduleRejects) =>
          OfType(scheduled', "test") = OfType(scheduled, "test")]_vars

\* C21: formatLastActive puts the time elapsed since lastActiveAt into
\* exactly one bucket: 0-59 s is 'Now'; 60 s up to 59 min is '<n> min ago';
\* 1-23 h is '<n>h ago'; 1-6 d is '<n>d ago'; 7 d or more is the month and
\* day of lastActiveAt; n is the whole number of elapsed units; null is
\* 'Never'.
C21_LastActiveBuckets ==
    onOut # NoCall =>
        LET e == onIn.now - onIn.lastActiveAt
        IN  IF onIn.lastActiveAt = NoTime
            THEN onOut.result = Label("Never", 0)
            ELSE e >= 0 =>
                 onOut.result =
                     IF e < 60 THEN Label("Now", 0)
                     ELSE IF e < 60 * 60 THEN Label("min ago", e \div 60)
                     ELSE IF e < 24 * 3600 THEN Label("h ago", e \div 3600)
                     ELSE IF e < 7 * 86400 THEN Label("d ago", e \div 86400)
                     ELSE Label("MMM D", onIn.lastActiveAt \div 86400)

\* exactly one hour has elapsed: the label is '1h ago', not '60 min ago'
C21_Witness ==
    /\ onOut # NoCall
    /\ onIn.lastActiveAt # NoTime
    /\ onIn.now - onIn.lastActiveAt = 3600
    /\ onOut.result = Label("h ago", 1)

MinOf(S) == CHOOSE m \in S : \A x \in S : m <= x

\* the profile after the days of S have been inserted one by one in
\* ascending order, the days of `done` being there already
RECURSIVE InsertedAscending(_, _, _)
InsertedAscending(S, profile, done) ==
    IF S = {} THEN profile
    ELSE LET d == MinOf(S)
         IN  InsertedAscending(S \ {d},
                 trigger_update_streak("INSERT", profile, done \cup {d}),
                 done \cup {d})

\* C28 as stated: the stored streak after inserting a set of completion days does not
\* depend on the order of the inserts: starting from (0, 0), whatever the
\* order, the stored current_streak and longest_streak are those that the
\* ascending order of the same days gives.
C28_InsertOrderIrrelevant ==
    \A u \in Users :
        profiles[u] = InsertedAscending(completions[u],
                          [current_streak |-> 0, longest_streak |-> 0], {})

\* C28, amended: the stored longest_streak after inserting a set of
\* completion days does not depend on the order of the inserts (it is the
\* length of the longest run of consecutive days of the set); the stored
\* current_streak, the largest value computed after any of the inserts, may
\* depend on it.
C28_LongestInsertOrderIrrelevant ==
    \A u \in Users :
        /\ profiles[u].longest_streak =
               InsertedAscending(completions[u],
                   [current_streak |-> 0, longest_streak |-> 0], {}).longest_streak
        /\ profiles[u].longest_streak = LongestRun(completions[u])

\* the same days inserted in another order than the ascending one have left
\* another current_streak and the same longest_streak
C28_Witness ==
    \E u \in Users :
        LET asc == InsertedAscending(completions[u],
                       [current_streak |-> 0, longest_streak |-> 0], {})
        IN  /\ Cardinality(completions[u]) >= 3
            /\ profiles[u].current_streak # asc.current_streak
            /\ profiles[u].longest_streak = asc.longest_streak

----------------------------------------------------------------------------
(* Properties of a first invite *)

\* C30: an invite between two different users that reaches the database
\* while buddy_links has no row for the pair is answered with a new pending
\* row, whether the inviter's id sorts before or after the target's.
C30_FirstInviteEitherDirection ==
    (/\ buddyOp.pc \in {"inserted", "duplicate", "denied"}
     /\ buddyOp.rows = 0) =>
        /\ buddyOp.pc = "inserted"
        /\ \E r \in links : /\ SamePair(r, buddyOp.req)
                            /\ r.status = "pending"
                            /\ r.created_by = buddyOp.req.created_by
----------------------------------------------------------------------------
(* Properties of a reschedule after a location refresh *)

\* C24: a reschedule started by a location refresh is made with the
\* coordinates that refresh has just acquired; and once the screen has come to
\* rest with the lock released and no release pending, a pending prayer
\* notification is at the time of its prayer computed from the coordinates
\* acquired last and the current preferences.
C24_RefreshUsesNewCoords ==
    /\ [][(HomeLocateResolves /\ Len(inflight') > Len(inflight)) =>
              inflight'[Len(inflight')].coords = hCoords']_vars
    /\ []((HomeQuiet /\ ~rescheduleLock /\ lockTimers = 0 /\ hCoords # None) =>
              \A n \in DOMAIN OfType(scheduled, "prayer") :
                  n.fireAt = computeTodayPrayerDates(hCoords, hPrefs, n.fireAt)[n.prayer])
----------------------------------------------------------------------------
(* Properties of the release of the lock *)

\* C22: a reschedule sequence that has set the lock has it cleared again once
\* its call has settled: from then on, whether the call returned or threw,
\* the timer that clears the lock is pending, and it fires; the lock is
\* cleared by that timer only and never while a cancel or schedule step is in
\* progress; and with the lock clear a change of the preferences starts a
\* reschedule.
C22_LockAlwaysReleased ==
    /\ []((rescheduleLock /\ inflight = <<>>) => lockTimers = 1)
    /\ [](lockTimers > 0 => inflight = <<>>)
    /\ [][(rescheduleLock /\ ~rescheduleLock') =>
              (HomeLockTimer /\ inflight = <<>> /\ inflight' = <<>>)]_vars
    /\ [][(HomeSetupPrefs /\ hPrefs' # hPrefs /\ hCoords # None /\ ~rescheduleLock) =>
              (rescheduleLock' /\ Len(inflight') = 1)]_vars
    /\ (rescheduleLock /\ inflight = <<>>) ~> ~rescheduleLock

\* a sequence has ended with an exception inside the location refresh and the
\* timer that will clear its lock is pending
C22_Witness ==
    /\ rescheduleLock
    /\ inflight = <<>>
    /\ lockTimers = 1
    /\ locError = "notification"
----------------------------------------------------------------------------
(* Properties of prayer_completions, of the alert and of the checklist *)

\* C25: whenever prayer_completions has a row for a user and a day, all five
\* rows of prayer_checkins of that user and day have completed = true; this
\* is so also after a prayer of a completed day has been switched off.
C25_CompletionImpliesAllFive ==
    \A c \in BagToSet(dayRows) : AllFive(checkins, c.user_id, c.day)
\* C23: the congratulation alert is shown once per account and day: it is
\* never shown a second time for the same user and day, and when no save is
\* under way and all five prayers of today are stored as completed, it has
\* been shown for today.
C23_CongratsOncePerDay ==
    /\ \A k \in BagToSet(alerts) : CopiesIn(k, alerts) = 1
    /\ (saves = EmptyBag /\ AllFive(checkins, Uid, hToday)) =>
           BagIn(keyLocal(Uid, hToday), alerts)
\* C26: once no load of the checklist and no save is awaiting a reply, the
\* checklist on the screen is the one stored in prayer_checkins for today,
\* however the reloads, the switches and their saves were interleaved.
C26_ChecklistMatchesStore ==
    (saves = EmptyBag /\ loads = {} /\ loadReplies = {}) =>
        checklist = loadChecklistForDay(checkins, hToday, Uid)
\* C27: every check-in stored as completed is stored under the calendar day
\* of the instant at which its switch was flipped (its completed_at), also
\* when that instant is after midnight and the poll has not yet moved `today`.
C27_SavedUnderDayOfToggle ==
    \A r \in checkins : r.completed => r.day = Day(r.completed_at)
====
